---- MODULE Spec2Model ----
(***************************************************************************)
(* A model of wefe's Relative Norm Distance metric: BaseMetric._check_input *)
(* (src/wefe/metrics/base_metric.py) and RND.run_query, RND.__calc_rnd and  *)
(* RND.__calc_distance (src/wefe/metrics/RND.py).                           *)
(*                                                                         *)
(* Floating point numbers are modelled by the real numbers they round: a    *)
(* number is held exactly, as a sum of rational multiples of square roots,  *)
(* so that sums, differences and means are exact and only the last bits of  *)
(* a float are out of sight.  Word vectors have two coordinates; the vector  *)
(* of one word is the zero vector.                                          *)
(***************************************************************************)
EXTENDS Integers, Sequences, FiniteSets, TLC

\* ------------------------------------------------------------------ bounds

\* The longest target set and the longest attribute set of a Query.
MaxTargetLen == 2
MaxAttributeLen == 3
\* The largest number of target sets and of attribute sets of a Query.
MaxSets == 3
\* The precision to which a square root is bounded when the sign of a number
\* is decided: sqrt(r) lies between Root(r) / Precision and
\* (Root(r) + 1) / Precision.
Precision == 4096

\* ---------------------------------------------------------------- numbers

\* A number is (1 / den) times the sum of coef * sqrt(radicand) over its
\* terms <<radicand, coef>>: den is at least 1, the radicands are square-free
\* and distinct, no coefficient is 0 and den and the coefficients have no
\* common factor, so that equal numbers are equal records.  Zero has no
\* term.  nan marks not-a-number; array marks a numpy array of two elements,
\* each of them the number, in the place of a scalar.
NaN == [nan |-> TRUE, array |-> FALSE, den |-> 1, terms |-> {}]
NaNArray == [nan |-> TRUE, array |-> TRUE, den |-> 1, terms |-> {}]

\* The not-a-number an operation on a and b gives when one of them is
\* not-a-number: an array when one of them is an array.
NaNOf(a, b) == IF a.array \/ b.array THEN NaNArray ELSE NaN

Abs(x) == IF x < 0 THEN -x ELSE x

RECURSIVE GCD(_, _)
GCD(a, b) == IF b = 0 THEN a ELSE GCD(b, a % b)

\* The greatest common divisor of a set of naturals (0 for the empty set).
RECURSIVE GCDOf(_)
GCDOf(S) ==
    IF S = {} THEN 0
    ELSE LET x == CHOOSE x \in S : TRUE IN GCD(x, GCDOf(S \ {x}))

\* The sum of the last components of a set of tuples.
RECURSIVE SetSum(_)
SetSum(S) ==
    IF S = {} THEN 0
    ELSE LET x == CHOOSE x \in S : TRUE IN x[Len(x)] + SetSum(S \ {x})

\* The number (1 / den) * sum of coef * sqrt(radicand), in lowest terms.
Number(den, terms) ==
    LET kept == {t \in terms : t[2] # 0}
        g == IF den = 1 THEN 1 ELSE GCD(den, GCDOf({Abs(t[2]) : t \in kept}))
    IN  [nan |-> FALSE, array |-> FALSE, den |-> den \div g,
         terms |-> {<<t[1], t[2] \div g>> : t \in kept}]

\* The float of an integer.
F(x) == Number(1, {<<1, x>>})

Radicands(a) == {t[1] : t \in a.terms}

\* The coefficient of sqrt(r) in a.
Coef(a, r) ==
    IF r \in Radicands(a) THEN (CHOOSE t \in a.terms : t[1] = r)[2] ELSE 0

FNeg(a) == [a EXCEPT !.terms = {<<t[1], -t[2]>> : t \in a.terms}]

FAdd(a, b) ==
    IF a.nan \/ b.nan THEN NaNOf(a, b)
    ELSE Number(a.den * b.den,
                {<<r, Coef(a, r) * b.den + Coef(b, r) * a.den>> :
                    r \in Radicands(a) \cup Radicands(b)})

FSub(a, b) == FAdd(a, FNeg(b))

\* a * b: sqrt(r) * sqrt(s) is g * sqrt((r / g) * (s / g)) for the greatest
\* common divisor g of the square-free r and s.
FMul(a, b) ==
    IF a.nan \/ b.nan THEN NaNOf(a, b)
    ELSE LET products ==
                 {<<(t[1] \div GCD(t[1], u[1])) * (u[1] \div GCD(t[1], u[1])),
                    t, u, t[2] * u[2] * GCD(t[1], u[1])>> :
                      t \in a.terms, u \in b.terms}
         IN  Number(a.den * b.den,
                    {<<r, SetSum({p \in products : p[1] = r})>> :
                        r \in {p[1] : p \in products}})

\* a / n for an integer n > 0.
FDivInt(a, n) == IF a.nan THEN a ELSE Number(a.den * n, a.terms)

RECURSIVE ISqrtIter(_, _, _)
ISqrtIter(n, lo, hi) ==
    IF lo >= hi THEN lo
    ELSE LET mid == (lo + hi + 1) \div 2
         IN  IF mid * mid <= n THEN ISqrtIter(n, mid, hi)
                               ELSE ISqrtIter(n, lo, mid - 1)

\* The integer square root of n >= 0.
ISqrt(n) == ISqrtIter(n, 0, IF n < 2^15 THEN n ELSE 2^15)

\* The greatest divisor of m >= 1 among the squares of 1..s.
RECURSIVE SquarePartFrom(_, _)
SquarePartFrom(m, s) ==
    IF m % (s * s) = 0 THEN s ELSE SquarePartFrom(m, s - 1)

\* The greatest s whose square divides m >= 1.
SquarePart(m) == SquarePartFrom(m, ISqrt(m))

\* The square root of a rational a >= 0: sqrt(n / d) = sqrt(n * d) / d.
FSqrt(a) ==
    IF a.nan THEN a
    ELSE LET m == Coef(a, 1) * a.den
             s == SquarePart(m)
         IN  IF m = 0 THEN F(0) ELSE Number(a.den, {<<m \div (s * s), s>>})

\* a / b for a b of at most one term, (c / d) * sqrt(r), whose inverse is
\* d * sqrt(r) / (c * r); 0 / 0 is not-a-number (a is 0 wherever b is).
FDiv(a, b) ==
    IF a.nan \/ b.nan THEN NaNOf(a, b)
    ELSE IF b.terms = {} THEN NaN
    ELSE LET t == CHOOSE t \in b.terms : TRUE
         IN  FMul(a, Number(Abs(t[2]) * t[1],
                            {<<t[1], (IF t[2] < 0 THEN -1 ELSE 1) * b.den>>}))

\* The floor of sqrt(r) * Precision.
Root(r) == ISqrt(r * Precision * Precision)

\* Bounds of a.den * Precision * a from below and from above.
Lower(a) ==
    SetSum({LET root == Root(t[1])
            IN  <<t[1], IF t[2] > 0 \/ root * root = t[1] * Precision * Precision
                        THEN t[2] * root
                        ELSE t[2] * (root + 1)>> : t \in a.terms})
Upper(a) ==
    SetSum({LET root == Root(t[1])
            IN  <<t[1], IF t[2] < 0 \/ root * root = t[1] * Precision * Precision
                        THEN t[2] * root
                        ELSE t[2] * (root + 1)>> : t \in a.terms})

\* The sign of a number: a number with a term is not zero (square roots of
\* distinct square-free integers are independent over the rationals); its
\* sign is that of its coefficients when they agree, and otherwise the one
\* the bounds decide.
Sign(a) ==
    IF a.terms = {} THEN 0
    ELSE IF \A t \in a.terms : t[2] > 0 THEN 1
    ELSE IF \A t \in a.terms : t[2] < 0 THEN -1
    ELSE CHOOSE s \in {-1, 1} : IF s = 1 THEN Lower(a) > 0 ELSE Upper(a) < 0

FAbs(a) == IF a.nan THEN a ELSE IF Sign(a) < 0 THEN FNeg(a) ELSE a

\* a < b on floats: every comparison with not-a-number is false.
FLess(a, b) == ~a.nan /\ ~b.nan /\ Sign(FSub(b, a)) = 1

\* ---------------------------------------------------------- sequence helpers

RECURSIVE SeqSum(_)
SeqSum(s) == IF s = <<>> THEN 0 ELSE Head(s) + SeqSum(Tail(s))

Range(s) == {s[i] : i \in DOMAIN s}

\* The sequences over S of length lo..hi without a repeated element.
DistinctSeqs(S, lo, hi) ==
    {s \in UNION {[1..n -> S] : n \in lo..hi} :
        \A i, j \in DOMAIN s : i # j => s[i] # s[j]}

\* ------------------------------------------------------- the Model's vectors

\* The words of the Model's vocabulary and one word that is not in it.
Vocabulary == {"w1", "w2", "w3"}
Words == Vocabulary \cup {"zz"}

\* The Model's vector of each word of its vocabulary.
Vectors == ("w1" :> <<1, 0>>) @@ ("w2" :> <<0, 1>>) @@ ("w3" :> <<0, 0>>)

\* A numpy value of two coordinates: an array, or a scalar, which is held as
\* what it broadcasts to.
Vector(coordinates) == [scalar |-> FALSE, at |-> coordinates]
Scalar(x) == [scalar |-> TRUE, at |-> <<x, x>>]

\* The vector of word w as an array of floats.
EmbeddingOf(w) == Vector([i \in 1..2 |-> F(Vectors[w][i])])

\* ------------------------------------------------------------------- Query

\* The wildcard "n" of a metric template (a count of sets is at least 1).
N == 0

\* Query.template: (number of target sets, number of attribute sets).
Template(target_sets, attribute_sets) == <<Len(target_sets), Len(attribute_sets)>>

\* Query.query_name: the display name built from the default names of the
\* sets, "Target set 0 and Target set 1 wrt Attribute set 0".
QueryName(target_sets, attribute_sets) ==
    [targets |-> [i \in DOMAIN target_sets |-> <<"Target set", i - 1>>],
     wrt |-> [i \in DOMAIN attribute_sets |-> <<"Attribute set", i - 1>>]]

\* Query(target_sets, attribute_sets); an object that is not a Query has
\* is_query FALSE.
Query(is_query, target_sets, attribute_sets) ==
    [is_query |-> is_query,
     target_sets |-> target_sets,
     attribute_sets |-> attribute_sets,
     template |-> Template(target_sets, attribute_sets),
     query_name |-> QueryName(target_sets, attribute_sets)]

\* --------------------------------------------------- BaseMetric._check_input

\* _check_input without its check of the attribute sets.
CheckInputTargetsOnly(metric_template, query, word_embedding) ==
    IF ~query.is_query THEN "TypeError: query"
    ELSE IF ~word_embedding.is_model THEN "TypeError: word_embedding"
    ELSE IF metric_template[1] # N /\ query.template[1] # metric_template[1]
         THEN "CardinalityError"
    ELSE "ok"

\* _check_input with the cardinality checks ahead of the type check of the
\* model.
CheckInputCardinalityFirst(metric_template, query, word_embedding) ==
    IF ~query.is_query THEN "TypeError: query"
    ELSE IF metric_template[1] # N /\ query.template[1] # metric_template[1]
         THEN "CardinalityError"
    ELSE IF metric_template[2] # N /\ query.template[2] # metric_template[2]
         THEN "CardinalityError"
    ELSE IF ~word_embedding.is_model THEN "TypeError: word_embedding"
    ELSE "ok"

\* The outcome of _check_input: "ok" or the error it raises.
CheckInput(metric_template, query, word_embedding) ==
    IF ~query.is_query THEN "TypeError: query"
    ELSE IF ~word_embedding.is_model THEN "TypeError: word_embedding"
    ELSE IF metric_template[1] # N /\ query.template[1] # metric_template[1]
         THEN "CardinalityError"
    ELSE IF metric_template[2] # N /\ query.template[2] # metric_template[2]
         THEN "CardinalityError"
    ELSE "ok"

\* RND.metric_template
RNDTemplate == <<2, 1>>

\* ------------------------------------------------ get_embeddings_from_query

\* The words of word_set the Model resolves, in their order (one empty
\* preprocessor, strategy "first": a word resolves when it is in the
\* vocabulary); the keys of the set's mapping from word to vector.
RECURSIVE ResolvedWords(_)
ResolvedWords(word_set) ==
    IF word_set = <<>> THEN <<>>
    ELSE IF Head(word_set) \in Vocabulary
         THEN <<Head(word_set)>> \o ResolvedWords(Tail(word_set))
         ELSE ResolvedWords(Tail(word_set))

\* The threshold test with a non-strict inequality.
LostTooManyOrEqual(word_set, threshold) ==
    (Len(word_set) - Len(ResolvedWords(word_set))) * threshold.den
        >= threshold.num * Len(word_set)

\* lost_fraction > lost_vocabulary_threshold for one set, the threshold being
\* the fraction threshold.num / threshold.den.
LostTooMany(word_set, threshold) ==
    (Len(word_set) - Len(ResolvedWords(word_set))) * threshold.den
        > threshold.num * Len(word_set)

NoEmbeddings == [none |-> TRUE, target_sets |-> <<>>, attribute_sets |-> <<>>]

\* get_embeddings_from_query: None when any set loses too many words, else
\* the resolved target sets and the resolved attribute sets.
GetEmbeddingsFromQuery(query, threshold) ==
    IF \/ \E i \in DOMAIN query.target_sets :
              LostTooMany(query.target_sets[i], threshold)
       \/ \E i \in DOMAIN query.attribute_sets :
              LostTooMany(query.attribute_sets[i], threshold)
    THEN NoEmbeddings
    ELSE [none |-> FALSE,
          target_sets |-> [i \in DOMAIN query.target_sets |->
                              ResolvedWords(query.target_sets[i])],
          attribute_sets |-> [i \in DOMAIN query.attribute_sets |->
                              ResolvedWords(query.attribute_sets[i])]]

\* The number of vocabulary lookups the projection makes: one per word.
LookupsOf(query) ==
    SeqSum([i \in DOMAIN query.target_sets |-> Len(query.target_sets[i])])
    + SeqSum([i \in DOMAIN query.attribute_sets |-> Len(query.attribute_sets[i])])

\* --------------------------------------------------------- RND.__calc_distance

\* np.linalg.norm of an array, or of a scalar.
Norm(vec) ==
    FSqrt(FAdd(FMul(vec.at[1], vec.at[1]), FMul(vec.at[2], vec.at[2])))

\* np.subtract, elementwise: an array, also when vec2 is a scalar.
Subtract(vec1, vec2) == Vector([i \in 1..2 |-> FSub(vec1.at[i], vec2.at[i])])

\* np.dot: the inner product of two arrays; with a scalar it is the array of
\* the elementwise products (the only scalar is not-a-number).
DotProduct(v, u) ==
    IF v.scalar \/ u.scalar THEN NaNArray
    ELSE FAdd(FMul(v.at[1], u.at[1]), FMul(v.at[2], u.at[2]))

\* cosine_similarity: dot(v, u) / (norm(v) * norm(u)); 0 / 0 is not-a-number.
CosineSimilarity(v, u) == FDiv(DotProduct(v, u), FMul(Norm(v), Norm(u)))

\* __calc_distance: the value returned, or raised for an unknown distance_type.
\* The mean of no vector is the scalar not-a-number: np.subtract broadcasts it
\* and the norm is a scalar, but the dot product of a vector and a scalar is
\* a vector, so the cosine similarity is then an array (of not-a-number).
CalcDistance(vec1, vec2, distance_type) ==
    IF distance_type = "norm"
    THEN [raised |-> FALSE, value |-> Norm(Subtract(vec1, vec2))]
    ELSE IF distance_type = "cos"
    THEN [raised |-> FALSE, value |-> FAbs(CosineSimilarity(vec1, vec2))]
    ELSE [raised |-> TRUE, value |-> NaN]

\* ------------------------------------------------------------- RND.__calc_rnd

\* The sum of a sequence of numbers.
RECURSIVE FSum(_)
FSum(s) == IF s = <<>> THEN F(0) ELSE FAdd(Head(s), FSum(Tail(s)))

\* np.average(target, axis=0): the elementwise mean of the vectors of a set;
\* the mean of no vector is the scalar not-a-number.
AverageVector(target) ==
    IF Len(target) = 0 THEN Scalar(NaN)
    ELSE Vector([i \in 1..2 |->
                   FDivInt(FSum([k \in DOMAIN target |-> target[k].at[i]]),
                           Len(target))])

\* The distance of one attribute word without its sign.
CurrentDistanceAbs(attribute_embedding, avg_1, avg_2, distance_type) ==
    LET d1 == CalcDistance(attribute_embedding, avg_1, distance_type)
        d2 == CalcDistance(attribute_embedding, avg_2, distance_type)
    IN  [raised |-> d1.raised \/ d2.raised,
         value |-> FAbs(FSub(d1.value, d2.value))]

\* The distance of one attribute word: its distance to the average vector of
\* target set 0 minus its distance to the average vector of target set 1.
CurrentDistance(attribute_embedding, avg_1, avg_2, distance_type) ==
    LET d1 == CalcDistance(attribute_embedding, avg_1, distance_type)
        d2 == CalcDistance(attribute_embedding, avg_2, distance_type)
    IN  [raised |-> d1.raised \/ d2.raised,
         value |-> FSub(d1.value, d2.value)]

\* d[key] = value on an ordered mapping held as a sequence of <<key, value>>:
\* a key already present keeps its place.
DictSet(d, key, value) ==
    IF \E i \in DOMAIN d : d[i][1] = key
    THEN [i \in DOMAIN d |-> IF d[i][1] = key THEN <<key, value>> ELSE d[i]]
    ELSE Append(d, <<key, value>>)

\* The loop over the attribute embeddings, from index i on; acc holds
\* sum_of_distances and distance_by_words.
RECURSIVE CalcRndLoop(_, _, _, _, _, _, _)
CalcRndLoop(i, attribute, attribute_words, avg_1, avg_2, distance_type, acc) ==
    IF i > Len(attribute) THEN acc
    ELSE LET cur == CurrentDistance(attribute[i], avg_1, avg_2, distance_type)
         IN  IF cur.raised
             THEN [raised |-> TRUE, sum |-> acc.sum, dict |-> acc.dict]
             ELSE CalcRndLoop(i + 1, attribute, attribute_words, avg_1, avg_2,
                              distance_type,
                              [raised |-> FALSE,
                               sum |-> FAdd(acc.sum, cur.value),
                               dict |-> DictSet(acc.dict, attribute_words[i],
                                                cur.value)])

\* The binary insertion that puts pivot ahead of the items equal to it.
RECURSIVE InsertionPointBeforeEqual(_, _, _, _)
InsertionPointBeforeEqual(s, pivot, l, r) ==
    IF l >= r THEN l
    ELSE LET p == l + ((r - l) \div 2)
         IN  IF ~FLess(s[p + 1][2], pivot[2])
             THEN InsertionPointBeforeEqual(s, pivot, l, p)
             ELSE InsertionPointBeforeEqual(s, pivot, p + 1, r)

\* The place of pivot among the sorted items s[l+1..r]: after every item
\* that is not greater than it (the binary insertion of list.sort).
RECURSIVE InsertionPoint(_, _, _, _)
InsertionPoint(s, pivot, l, r) ==
    IF l >= r THEN l
    ELSE LET p == l + ((r - l) \div 2)
         IN  IF FLess(pivot[2], s[p + 1][2])
             THEN InsertionPoint(s, pivot, l, p)
             ELSE InsertionPoint(s, pivot, p + 1, r)

\* s with its items from..to in the reverse order.
ReverseSlice(s, from, to) ==
    [i \in DOMAIN s |-> IF i >= from /\ i <= to THEN s[from + to - i] ELSE s[i]]

\* The end of the run that goes on from the k-th item of s: a run in which
\* no item is less than the one before it, or a descending run, in which
\* every item is less than the one before it.
RECURSIVE RunLength(_, _, _)
RunLength(s, k, descending) ==
    IF k < Len(s) /\ FLess(s[k + 1][2], s[k][2]) = descending
    THEN RunLength(s, k + 1, descending)
    ELSE k

\* binarysort: the items of s from the i-th on, each inserted among the
\* sorted items before it.
RECURSIVE BinarySort(_, _)
BinarySort(s, i) ==
    IF i > Len(s) THEN s
    ELSE LET at == InsertionPoint(s, s[i], 0, i - 1)
         IN  BinarySort(SubSeq(s, 1, at) \o <<s[i]>> \o SubSeq(s, at + 1, i - 1)
                            \o SubSeq(s, i + 1, Len(s)),
                        i + 1)

\* list.sort of CPython 3.6 to 3.12 on a list of fewer than 64 items:
\* count_run takes the run at the head of the list, reversed when it
\* descends, and binarysort inserts the other items.
ListSort(items) ==
    IF Len(items) < 2 THEN items
    ELSE LET descending == FLess(items[2][2], items[1][2])
             n == RunLength(items, 1, descending)
         IN  BinarySort(IF descending THEN ReverseSlice(items, 1, n) ELSE items,
                        n + 1)

\* count_run of CPython 3.13 on a descending run of n items the last neq + 1
\* of which are equal: a descending run goes on through equal items, which
\* are reversed in place to keep their order when the run is reversed.
RECURSIVE DescendingRun(_, _, _)
DescendingRun(s, n, neq) ==
    LET flushed == IF neq = 0 THEN s ELSE ReverseSlice(s, n - neq, n)
    IN  IF n < Len(s) /\ FLess(s[n + 1][2], s[n][2])
        THEN DescendingRun(flushed, n + 1, 0)
        ELSE IF n < Len(s) /\ ~FLess(s[n][2], s[n + 1][2])
        THEN DescendingRun(s, n + 1, neq + 1)
        ELSE [s |-> ReverseSlice(flushed, 1, n), n |-> n]

\* list.sort of CPython 3.13 on a list of fewer than 64 items: count_run
\* takes the ascending run at the head of the list; when that run is of
\* equal items and a lesser item follows, it takes the descending run,
\* reverses it and goes on through the ascending items after it; binarysort
\* inserts the other items.
ListSortRuns(items) ==
    IF Len(items) < 2 THEN items
    ELSE LET ascending == RunLength(items, 1, FALSE)
         IN  IF ascending = Len(items) THEN items
             ELSE IF ascending > 1 /\ FLess(items[1][2], items[ascending][2])
             THEN BinarySort(items, ascending + 1)
             ELSE LET run == DescendingRun(
                                 IF ascending > 1
                                 THEN ReverseSlice(items, 1, ascending)
                                 ELSE items,
                                 ascending + 1, 0)
                  IN  BinarySort(run.s, RunLength(run.s, run.n, FALSE) + 1)

\* Some value of items is an array: the comparison of two values then has
\* no truth value.
HasArray(items) == \E i \in DOMAIN items : items[i][2].array

\* sorted(distance_by_words.items(), key=lambda item: item[1]): the orders
\* it can return.  Where < orders the values every list.sort returns their
\* stable sort; with a not-a-number among numbers the order depends on the
\* runs list.sort finds, and so on the version of the interpreter.
SortedByValue(items) == {ListSort(items), ListSortRuns(items)}

\* __calc_rnd returning the sum whatever average_distances is.
CalcRndAlwaysSum(target_0, target_1, attribute, attribute_words, distance_type, average_distances) ==
    LET loop == CalcRndLoop(1, attribute, attribute_words, AverageVector(target_0),
                            AverageVector(target_1), distance_type,
                            [raised |-> FALSE, sum |-> F(0), dict |-> <<>>])
    IN  IF loop.raised
        THEN {[raised |-> "Exception: distance_type", score |-> NaN,
               distances |-> <<>>]}
        ELSE IF HasArray(loop.dict) /\ Len(loop.dict) >= 2
        THEN {[raised |-> "ValueError", score |-> NaN, distances |-> <<>>]}
        ELSE {[raised |-> "none", score |-> loop.sum,
               distances |-> sorted_distances_by_word] :
                 sorted_distances_by_word \in SortedByValue(loop.dict)}

\* __calc_rnd: the outcomes it can have, each the score and the sorted
\* per-word distances, or what it raises.  sorted() compares the values of
\* two items: the comparison of two arrays has no truth value and raises
\* ValueError.
CalcRnd(target_0, target_1, attribute, attribute_words, distance_type, average_distances) ==
    LET target_1_avg_vector == AverageVector(target_0)
        target_2_avg_vector == AverageVector(target_1)
        loop == CalcRndLoop(1, attribute, attribute_words, target_1_avg_vector,
                            target_2_avg_vector, distance_type,
                            [raised |-> FALSE, sum |-> F(0), dict |-> <<>>])
    IN  IF loop.raised
        THEN {[raised |-> "Exception: distance_type", score |-> NaN,
               distances |-> <<>>]}
        ELSE IF HasArray(loop.dict) /\ Len(loop.dict) >= 2
        THEN {[raised |-> "ValueError", score |-> NaN, distances |-> <<>>]}
        ELSE IF average_distances /\ Len(loop.dict) = 0
        THEN {[raised |-> "ZeroDivisionError", score |-> NaN,
               distances |-> <<>>]}
        ELSE {[raised |-> "none",
               score |-> IF average_distances
                         THEN FDivInt(loop.sum, Len(loop.dict))
                         ELSE loop.sum,
               distances |-> sorted_distances_by_word] :
                 sorted_distances_by_word \in SortedByValue(loop.dict)}

\* --------------------------------------------------------------- RND.run_query

VARIABLES metric_template, query, word_embedding, distance, average_distances,
          lost_vocabulary_threshold, pc, embeddings, result, raised, lookups

vars == <<metric_template, query, word_embedding, distance, average_distances,
          lost_vocabulary_threshold, pc, embeddings, result, raised, lookups>>

inputs == <<metric_template, query, word_embedding, distance, average_distances,
            lost_vocabulary_threshold>>

NoResult ==
    [returned |-> FALSE, query_name |-> QueryName(<<>>, <<>>), result |-> NaN,
     rnd |-> NaN, distances_by_word |-> <<>>]

\* The record of an invalid projection with a score of zero.
NanResultZero(q) ==
    [returned |-> TRUE, query_name |-> q.query_name, result |-> F(0),
     rnd |-> F(0), distances_by_word |-> <<>>]

\* The record returned when the projection is None.
NanResult(q) ==
    [returned |-> TRUE, query_name |-> q.query_name, result |-> NaN,
     rnd |-> NaN, distances_by_word |-> <<>>]

\* The record returned after __calc_rnd.
RndResult(q, rnd, distances_by_word) ==
    [returned |-> TRUE, query_name |-> q.query_name, result |-> rnd,
     rnd |-> rnd, distances_by_word |-> distances_by_word]

\* list(mapping.values()) of one resolved set: the vectors of its words.
EmbeddingsOf(resolved) == [k \in DOMAIN resolved |-> EmbeddingOf(resolved[k])]

\* The outcomes of the call of __calc_rnd on the resolved sets of a projection.
RunCalcRnd(emb, distance_type, average) ==
    LET target_0_embeddings == EmbeddingsOf(emb.target_sets[1])
        target_1_embeddings == EmbeddingsOf(emb.target_sets[2])
        attribute_0_embeddings == EmbeddingsOf(emb.attribute_sets[1])
        attribute_0_words == emb.attribute_sets[1]
    IN  CalcRnd(target_0_embeddings, target_1_embeddings, attribute_0_embeddings,
                attribute_0_words, distance_type, average)

\* run_query as a whole: the outcomes it can have, each what it raises or
\* the record it returns.
RunQuery(template, q, model, distance_type, average, threshold) ==
    LET outcome == CheckInput(template, q, model)
        emb == GetEmbeddingsFromQuery(q, threshold)
    IN  IF outcome # "ok" THEN {[raised |-> outcome, result |-> NoResult]}
        ELSE IF emb.none THEN {[raised |-> "none", result |-> NanResult(q)]}
        ELSE {IF r.raised # "none"
              THEN [raised |-> r.raised, result |-> NoResult]
              ELSE [raised |-> "none",
                    result |-> RndResult(q, r.score, r.distances)] :
                r \in RunCalcRnd(emb, distance_type, average)}

\* run_query looking the words of the Query up in the Model ahead of
\* _check_input.
ValidateAfterLookups ==
    /\ pc = "start"
    /\ lookups' = lookups + (IF query.is_query THEN LookupsOf(query) ELSE 0)
    /\ LET outcome == CheckInput(metric_template, query, word_embedding)
       IN  IF outcome = "ok"
           THEN pc' = "checked" /\ raised' = raised
           ELSE pc' = "raised" /\ raised' = outcome
    /\ UNCHANGED <<inputs, embeddings, result>>

\* self._check_input(query, word_embedding)
Validate ==
    /\ pc = "start"
    /\ LET outcome == CheckInput(metric_template, query, word_embedding)
       IN  IF outcome = "ok"
           THEN pc' = "checked" /\ raised' = raised
           ELSE pc' = "raised" /\ raised' = outcome
    /\ UNCHANGED <<inputs, embeddings, result, lookups>>

\* embeddings = get_embeddings_from_query(...), in RND.run_query
Project ==
    /\ pc = "checked"
    /\ metric_template = RNDTemplate
    /\ embeddings' = GetEmbeddingsFromQuery(query, lost_vocabulary_threshold)
    /\ lookups' = lookups + LookupsOf(query)
    /\ pc' = "projected"
    /\ UNCHANGED <<inputs, result, raised>>

\* if embeddings is None: return the not-a-number record
ReturnNan ==
    /\ pc = "projected"
    /\ embeddings.none
    /\ result' = NanResult(query)
    /\ pc' = "done"
    /\ UNCHANGED <<inputs, embeddings, raised, lookups>>

\* otherwise: __calc_rnd on the resolved sets, and the record returned
Compute ==
    /\ pc = "projected"
    /\ ~embeddings.none
    /\ \E r \in RunCalcRnd(embeddings, distance, average_distances) :
           IF r.raised = "none"
           THEN /\ result' = RndResult(query, r.score, r.distances)
                /\ pc' = "done"
                /\ raised' = raised
           ELSE /\ raised' = r.raised
                /\ pc' = "raised"
                /\ result' = result
    /\ UNCHANGED <<inputs, embeddings, lookups>>

\* ------------------------------------------------------------------ inputs

\* A metric template slot: a positive integer or the wildcard.
Slots == {N} \cup 1..MaxSets

Distances == {"norm", "cos", "manhattan"}

\* lost_vocabulary_threshold as a fraction: 0.2 (the default), 0.5 and 1.0.
Thresholds == {[num |-> 1, den |-> 5], [num |-> 1, den |-> 2], [num |-> 1, den |-> 1]}

\* The words in a fixed order, and the place of a word in it.
WordOrder == <<"w1", "w2", "w3", "zz">>
Place(w) == CHOOSE i \in DOMAIN WordOrder : WordOrder[i] = w

\* The word sets of 1..max words, each written in the fixed order.
WordSets(max) == {s \in DistinctSeqs(Words, 1, max) :
                    \A i, j \in DOMAIN s : i < j => Place(s[i]) < Place(s[j])}

DefaultSet == <<"w1">>

Computing ==
    /\ pc = "start"
    /\ embeddings = NoEmbeddings
    /\ result = NoResult
    /\ raised = "none"
    /\ lookups = 0

\* Arguments of any type and Queries of any template, for any metric.
InitValidation ==
    /\ metric_template \in Slots \X Slots
    /\ \E is_query \in BOOLEAN, t, a \in 1..MaxSets :
          query = Query(is_query, [i \in 1..t |-> DefaultSet],
                        [i \in 1..a |-> DefaultSet])
    /\ word_embedding \in [is_model : BOOLEAN]
    /\ distance = "norm"
    /\ average_distances = TRUE
    /\ lost_vocabulary_threshold = [num |-> 1, den |-> 5]

\* RND on Queries of its template, of any words, with any options.
InitRND ==
    /\ metric_template = RNDTemplate
    /\ \E t0, t1 \in WordSets(MaxTargetLen) :
       \E a \in DistinctSeqs(Words, 1, MaxAttributeLen) :
          query = Query(TRUE, <<t0, t1>>, <<a>>)
    /\ word_embedding = [is_model |-> TRUE]
    /\ distance \in Distances
    /\ average_distances \in BOOLEAN
    /\ lost_vocabulary_threshold \in Thresholds

Init == Computing /\ (InitValidation \/ InitRND)

Next == Validate \/ Project \/ ReturnNan \/ Compute

Spec == Init /\ [][Next]_vars

\* ------------------------------------------------------ what the claims use

\* _check_input has returned without raising.
Validated ==
    \/ pc \in {"checked", "projected", "done"}
    \/ pc = "raised" /\ raised \in {"Exception: distance_type", "ZeroDivisionError",
                                     "ValueError"}

\* run_query has ended: it has returned a record or raised.
Ended == pc \in {"done", "raised"}

\* The words of a set that are not in the Model's vocabulary.
LostCount(word_set) ==
    Cardinality({i \in DOMAIN word_set : word_set[i] \notin Vocabulary})

\* unresolved_count / total_count > threshold for this set.
LosesMoreThan(word_set, threshold) ==
    LostCount(word_set) * threshold.den > threshold.num * Len(word_set)

\* unresolved_count / total_count = threshold for this set.
LosesExactly(word_set, threshold) ==
    LostCount(word_set) * threshold.den = threshold.num * Len(word_set)

AllSets(q) == Range(q.target_sets) \cup Range(q.attribute_sets)

\* Some target or attribute set loses more than the threshold.
ProjectionInvalid ==
    \E ws \in AllSets(query) : LosesMoreThan(ws, lost_vocabulary_threshold)

\* A slot of the metric template that is not the wildcard and differs from
\* the Query's number of sets.
SlotMismatch ==
    \/ metric_template[1] # N /\ metric_template[1] # Len(query.target_sets)
    \/ metric_template[2] # N /\ metric_template[2] # Len(query.attribute_sets)

\* The Query with its two target sets swapped.
Swapped(q) ==
    Query(q.is_query, <<q.target_sets[2], q.target_sets[1]>>, q.attribute_sets)

\* The value of key in an ordered mapping that holds it.
ValueOf(d, key) == d[CHOOSE i \in DOMAIN d : d[i][1] = key][2]

Keys(d) == {d[i][1] : i \in DOMAIN d}

\* The sum of the values of an ordered mapping, in its order.
RECURSIVE SumOfValues(_)
SumOfValues(d) ==
    IF d = <<>> THEN F(0) ELSE FAdd(Head(d)[2], SumOfValues(Tail(d)))

\* The attribute words the Model resolves, in the order of the Query.
ResolvedAttributes == SelectSeq(query.attribute_sets[1], LAMBDA w : w \in Vocabulary)

\* The place of a resolved attribute word in the attribute set.
PlaceIn(words, w) == CHOOSE i \in DOMAIN words : words[i] = w

\* run_query has returned the record of a valid projection.
ReturnedValid == pc = "done" /\ Validated /\ ~ProjectionInvalid

\* The sum of the Model's vectors of the resolved words of a target set (the
\* direction of its centroid), and their number.
VectorSum(word_set) ==
    [i \in 1..2 |-> SeqSum([k \in DOMAIN ResolvedWords(word_set) |->
                               Vectors[ResolvedWords(word_set)[k]][i]])]
Resolved(word_set) == Len(ResolvedWords(word_set))

Dot(v, u) == v[1] * u[1] + v[2] * u[2]

\* Word w is nearer, in Euclidean distance, to the centroid of set a than to
\* the centroid of set b (both sets resolve a word).
NearerByNorm(w, a, b) ==
    LET na == Resolved(a)
        nb == Resolved(b)
        da == [i \in 1..2 |-> na * Vectors[w][i] - VectorSum(a)[i]]
        db == [i \in 1..2 |-> nb * Vectors[w][i] - VectorSum(b)[i]]
    IN  na > 0 /\ nb > 0 /\ Dot(da, da) * nb * nb < Dot(db, db) * na * na

\* The absolute cosine similarity of word w with the centroid of set a is
\* greater than with the centroid of set b (both centroids are not zero).
NearerByCos(w, a, b) ==
    LET sa == VectorSum(a)
        sb == VectorSum(b)
    IN  /\ Dot(sa, sa) > 0 /\ Dot(sb, sb) > 0
        /\ Dot(Vectors[w], sa) * Dot(Vectors[w], sa) * Dot(sb, sb)
              > Dot(Vectors[w], sb) * Dot(Vectors[w], sb) * Dot(sa, sa)

Nearer(w, a, b) ==
    IF distance = "norm" THEN NearerByNorm(w, a, b) ELSE NearerByCos(w, a, b)

\* The sign convention on the distances a run has returned.
SignConvention ==
    \A i \in DOMAIN result.distances_by_word :
        LET w == result.distances_by_word[i][1]
            v == result.distances_by_word[i][2]
        IN  /\ FLess(F(0), v) => Nearer(w, query.target_sets[2], query.target_sets[1])
            /\ FLess(v, F(0)) => Nearer(w, query.target_sets[1], query.target_sets[2])

\* -------------------------------------------------------------------- claims

\* C1: for a Query and a Model of the right types, _check_input raises the
\* cardinality error exactly when a slot of the metric template is not the
\* wildcard and differs from the Query's template; RND accepts exactly the
\* Queries of 2 target sets and 1 attribute set.
C1_CardinalityIffSlotMismatch ==
    (pc # "start" /\ query.is_query /\ word_embedding.is_model) =>
        /\ (raised = "CardinalityError") <=> SlotMismatch
        /\ metric_template = RNDTemplate =>
              (Validated <=> (Len(query.target_sets) = 2
                              /\ Len(query.attribute_sets) = 1))

\* RND has rejected a Query of 3 target sets and 1 attribute set.
C1_Witness ==
    /\ pc = "raised" /\ raised = "CardinalityError"
    /\ metric_template = RNDTemplate
    /\ query.is_query /\ word_embedding.is_model
    /\ query.template = <<3, 1>>

\* C2: when the projection of a validated Query is invalid, run_query ends
\* by returning a record whose result and rnd are not-a-number, whose
\* distances_by_word is empty and whose query_name is the Query's name.
C2_InvalidProjectionReturnsNan ==
    (Ended /\ Validated /\ ProjectionInvalid) =>
        /\ pc = "done"
        /\ raised = "none"
        /\ result.returned
        /\ result.result.nan /\ result.rnd.nan
        /\ result.distances_by_word = <<>>
        /\ result.query_name = QueryName(query.target_sets, query.attribute_sets)

\* run_query has returned for a Query one of whose sets lost too many words.
C2_Witness ==
    /\ pc = "done" /\ ProjectionInvalid
    /\ query.target_sets[1] = <<"w1", "zz">>
    /\ lost_vocabulary_threshold = [num |-> 1, den |-> 5]

\* C3: the projection is invalid (None) exactly when some target or
\* attribute set loses strictly more than lost_vocabulary_threshold of its
\* words, a set losing exactly the threshold does not invalidate it, and
\* run_query returns the not-a-number record for an invalid projection.
C3_InvalidIffStrictlyMore ==
    (Validated /\ pc \in {"projected", "done", "raised"}) =>
        /\ embeddings.none <=> ProjectionInvalid
        /\ (pc = "done" /\ ProjectionInvalid) =>
              (result.result.nan /\ result.distances_by_word = <<>>)
        /\ (pc = "done" /\ ~ProjectionInvalid) =>
              (~result.result.nan \/ result.distances_by_word # <<>>)

\* A projection is valid although a set lost exactly the threshold fraction.
C3_Witness ==
    /\ pc = "done" /\ ~embeddings.none
    /\ lost_vocabulary_threshold = [num |-> 1, den |-> 2]
    /\ \E ws \in AllSets(query) :
          LostCount(ws) > 0 /\ LosesExactly(ws, lost_vocabulary_threshold)

\* C4: for a valid projection, RND on the Query with its two target sets
\* swapped returns, for every attribute word, the negation of its distance,
\* and the negation of the score.
C4_SwapNegates ==
    ReturnedValid =>
        LET others == RunQuery(metric_template, Swapped(query), word_embedding,
                               distance, average_distances,
                               lost_vocabulary_threshold)
            d == result.distances_by_word
        IN  /\ others # {}
            /\ \A other \in others :
                  LET e == other.result.distances_by_word
                  IN  /\ other.raised = "none" /\ other.result.returned
                      /\ other.result.result = FNeg(result.result)
                      /\ other.result.rnd = FNeg(result.rnd)
                      /\ Keys(e) = Keys(d) /\ Len(e) = Len(d)
                      /\ \A w \in Keys(d) : ValueOf(e, w) = FNeg(ValueOf(d, w))

\* A run has returned a score that is neither zero nor not-a-number, for at
\* least two attribute words.
C4_Witness ==
    /\ ReturnedValid
    /\ ~result.result.nan /\ result.result.terms # {}
    /\ Len(result.distances_by_word) >= 2

\* C5: a returned distance is positive only when the word is nearer to the
\* centroid of target set 1 and negative only when it is nearer to the
\* centroid of target set 0, for both distance types.
C5_SignConvention == ReturnedValid => SignConvention

\* The sign convention of C5 for the Euclidean distance alone.
SignConventionNorm == (ReturnedValid /\ distance = "norm") => SignConvention

\* C6: for a valid projection the score is the sum of the returned distances,
\* or that sum divided by their number when average_distances is true, and
\* the returned mapping has one entry per resolved attribute word.
C6_ScoreIsSumOrMean ==
    ReturnedValid =>
        LET d == result.distances_by_word
        IN  /\ Len(d) = Len(ResolvedAttributes)
            /\ Keys(d) = Range(ResolvedAttributes)
            /\ result.rnd = result.result
            /\ average_distances =>
                  (Len(d) > 0 /\ result.result = FDivInt(SumOfValues(d), Len(d)))
            /\ ~average_distances => result.result = SumOfValues(d)

\* An averaged score over two or more distances whose sum it is not.
C6_Witness ==
    /\ ReturnedValid /\ average_distances
    /\ Len(result.distances_by_word) >= 2
    /\ ~result.result.nan
    /\ result.result # SumOfValues(result.distances_by_word)

\* The returned mapping is in non-decreasing order of distance, holds each
\* resolved attribute word once with the distance computed for it, and keeps
\* words of equal distance in the order of the attribute set.
SortedStablePermutation ==
    LET d == result.distances_by_word
        c0 == AverageVector(EmbeddingsOf(ResolvedWords(query.target_sets[1])))
        c1 == AverageVector(EmbeddingsOf(ResolvedWords(query.target_sets[2])))
    IN  /\ \A i, j \in DOMAIN d : i < j => ~FLess(d[j][2], d[i][2])
        /\ Len(d) = Len(ResolvedAttributes)
        /\ \A k \in DOMAIN ResolvedAttributes :
              \E i \in DOMAIN d :
                  /\ d[i][1] = ResolvedAttributes[k]
                  /\ d[i][2] = CurrentDistance(EmbeddingOf(ResolvedAttributes[k]),
                                               c0, c1, distance).value
        /\ \A i, j \in DOMAIN d :
              (i < j /\ d[i][2] = d[j][2]) =>
                  PlaceIn(ResolvedAttributes, d[i][1])
                      < PlaceIn(ResolvedAttributes, d[j][1])

\* A not-a-number stands among numbers: < does not order the values.
Incomparable(items) ==
    /\ \E i \in DOMAIN items : items[i][2].nan
    /\ \E i \in DOMAIN items : ~items[i][2].nan

\* C7: the returned mapping is in non-decreasing order of distance, holds
\* each resolved attribute word once with the distance computed for it, and
\* keeps words of equal distance in the order of the attribute set.
C7_SortedStablePermutation == ReturnedValid => SortedStablePermutation

\* The order of C7 for the runs in which no not-a-number stands among the
\* distances of the words.
SortedStableOfNumbers ==
    (ReturnedValid /\ ~Incomparable(result.distances_by_word)) =>
        SortedStablePermutation

\* A returned mapping whose order differs from the attribute set's and that
\* holds two words of equal distance.
SortedStableReordered ==
    /\ ReturnedValid
    /\ LET d == result.distances_by_word
       IN  /\ Len(d) = 3
           /\ ~d[1][2].nan
           /\ [i \in DOMAIN d |-> d[i][1]] # ResolvedAttributes
           /\ \E i \in 1..2 : d[i][2] = d[i + 1][2]

\* C8: run_query raises a type error whenever the query is not a Query, and
\* whenever the query is a Query and the model is not a BaseModel, whatever
\* the template of the query.
C8_TypeErrorsFirst ==
    pc # "start" =>
        /\ ~query.is_query => (pc = "raised" /\ raised = "TypeError: query")
        /\ (query.is_query /\ ~word_embedding.is_model) =>
              (pc = "raised" /\ raised = "TypeError: word_embedding")

\* A type error was raised for a model that is not a BaseModel although the
\* template of the Query does not match the metric.
C8_Witness ==
    /\ pc = "raised" /\ raised = "TypeError: word_embedding"
    /\ query.is_query /\ SlotMismatch

\* C9: for a validated Query and Model, run_query with a distance other than
\* "norm" and "cos" raises the unknown-option error, whatever the vocabulary
\* coverage, and returns no record.
C9_UnknownDistanceRaises ==
    (Validated /\ Ended /\ distance \notin {"norm", "cos"}) =>
        /\ pc = "raised" /\ raised = "Exception: distance_type"
        /\ ~result.returned

\* C10: for a validated Query of template (2, 1), a threshold in [0, 1] and
\* a recognised distance, run_query returns a record, however many words of
\* each set are lost.
C10_MissingVocabularyNeverRaises ==
    (Validated /\ Ended /\ distance \in {"norm", "cos"}) =>
        /\ pc = "done" /\ raised = "none"
        /\ result.returned

\* The arguments are a Query and a BaseModel, and the template of the Query
\* matches the template of the metric.
ArgumentsValid == query.is_query /\ word_embedding.is_model /\ ~SlotMismatch

\* Something of run_query beyond its validation has happened: a lookup in
\* the Model, a projection, a distance computation or a returned record.
Computed ==
    \/ lookups > 0
    \/ embeddings # NoEmbeddings
    \/ result # NoResult
    \/ pc \in {"projected", "done"}
    \/ raised \in {"Exception: distance_type", "ZeroDivisionError", "ValueError"}

\* C11: _check_input completes before any lookup in the Model, projection or
\* distance computation of run_query, and when it fails with a type or
\* cardinality error no lookup has been made and no record is produced.
C11_ValidationBeforeComputation ==
    /\ pc = "start" => ~Computed
    /\ Computed => (ArgumentsValid /\ lookups = LookupsOf(query))
    /\ (pc # "start" /\ ~ArgumentsValid) =>
          /\ pc = "raised"
          /\ raised \in {"TypeError: query", "TypeError: word_embedding",
                         "CardinalityError"}
          /\ lookups = 0 /\ embeddings = NoEmbeddings /\ ~result.returned

\* Validation has failed with a cardinality error for a Query whose words
\* are in the Model, and nothing was looked up.
C11_Witness ==
    /\ pc = "raised" /\ raised = "CardinalityError"
    /\ \A ws \in AllSets(query) : LostCount(ws) = 0
    /\ lookups = 0 /\ ~result.returned

====
